---- MODULE Spec2Model ----
(***************************************************************************)
(* Model of the answer-private plugin (answer_private.go): the response    *)
(* recorder, the JSON envelope decoding and re-encoding, the ownership     *)
(* extractors, the two filter policies and the middleware around a         *)
(* downstream handler.                                                     *)
(*                                                                         *)
(* Bytes.  A response body is a sequence of JSON documents laid end to     *)
(* end: <<>> is the empty body, <<d>> one document, two or more documents  *)
(* are bytes that json.Unmarshal rejects (data after the top-level value). *)
(* A document is a syntax tree that keeps what the bytes hold and a        *)
(* decoded Go value does not: the order of an object's members, duplicate  *)
(* keys, and the exact digits of a number.  Whitespace is not modelled.    *)
(***************************************************************************)
EXTENDS Integers, Sequences, FiniteSets, TLC

\* Bounds of the model.
MaxOps == 2
MaxList == 2

\* net/http status codes the source names.
StatusOK == 200
StatusForbidden == 403

pathAnswerInfo == "/answer/api/v1/answer/info"
pathAnswerList == "/answer/api/v1/answer/page"

---------------------------------------------------------------------------
(* JSON documents as they stand in the bytes.                              *)

\* A non-negative integer literal hi * 2^30 + lo, 0 <= lo < 2^30.
Pow30 == 2^30
Pow23 == 2^23

JNull == [k |-> "null", v |-> <<>>]
JStr(s) == [k |-> "str", v |-> s]
JNum(hi, lo) == [k |-> "num", v |-> <<hi, lo>>]
JInt(n) == JNum(0, n)
JBool(b) == [k |-> "bool", v |-> b]
JArr(items) == [k |-> "arr", v |-> items]
JObj(members) == [k |-> "obj", v |-> members]
\* Bytes that are not JSON at all.
JBad == [k |-> "bad", v |-> <<>>]

\* The object keys of the model, in the byte order encoding/json sorts map
\* keys by.
KeyOrder ==
    << "code", "count", "data", "id", "info", "list", "msg", "page",
       "question", "question_info", "reason", "user_info", "votes" >>

SortedKeys(S) == SelectSeq(KeyOrder, LAMBDA key : key \in S)

MemberKeys(members) == {members[i][1] : i \in 1..Len(members)}

\* encoding/json keeps the last of several members with one key.
LastValue(members, key) ==
    LET i == CHOOSE n \in 1..Len(members) :
                 /\ members[n][1] = key
                 /\ \A m \in (n + 1)..Len(members) : members[m][1] # key
    IN  members[i][2]

---------------------------------------------------------------------------
(* Go values behind `any`, as json.Unmarshal builds them.  A map is kept   *)
(* as its entries in sorted key order, one per key.                        *)

GoNil == [k |-> "nil", v |-> <<>>]
GoString(s) == [k |-> "string", v |-> s]
GoFloat(n) == [k |-> "float64", v |-> n]
GoInt(n) == [k |-> "int", v |-> n]
GoBool(b) == [k |-> "bool", v |-> b]
GoSlice(items) == [k |-> "slice", v |-> items]
GoMap(entries) == [k |-> "map", v |-> entries]

\* float64 of the integer literal <<hi, lo>>: exact up to 2^53, and between
\* 2^53 and 2^54 the nearest even integer, ties to the even mantissa.  Below
\* 10^16 json.Marshal prints such a float64 as exactly that integer.  Defined
\* for integers below 2^54, which is all the inputs hold.
Float64(n) ==
    LET hi == n[1]
        lo == n[2]
    IN  CASE hi < Pow23 \/ lo % 2 = 0 -> n
          [] hi >= Pow23 /\ hi < 2 * Pow23 /\ lo % 2 = 1 ->
                IF ((lo - 1) \div 2) % 2 = 0
                THEN <<hi, lo - 1>>
                ELSE IF lo + 1 = Pow30 THEN <<hi + 1, 0>> ELSE <<hi, lo + 1>>

MapHas(m, key) == \E i \in 1..Len(m) : m[i][1] = key
MapGet(m, key) == m[CHOOSE i \in 1..Len(m) : m[i][1] = key][2]
MapKeys(m) == {m[i][1] : i \in 1..Len(m)}
\* m[key] = val
MapSet(m, key, val) ==
    LET ks == SortedKeys(MapKeys(m) \cup {key})
    IN  [i \in 1..Len(ks) |->
            <<ks[i], IF ks[i] = key THEN val ELSE MapGet(m, ks[i])>>]

\* json.Unmarshal of a document into an `any`.
RECURSIVE DecodeAny(_)
DecodeAny(j) ==
    CASE j.k = "null" -> GoNil
      [] j.k = "str" -> GoString(j.v)
      [] j.k = "bool" -> GoBool(j.v)
      [] j.k = "num" -> GoFloat(Float64(j.v))
      [] j.k = "arr" -> GoSlice([i \in 1..Len(j.v) |-> DecodeAny(j.v[i])])
      [] j.k = "obj" ->
            LET ks == SortedKeys(MemberKeys(j.v))
            IN  GoMap([i \in 1..Len(ks) |->
                          <<ks[i], DecodeAny(LastValue(j.v, ks[i]))>>])

\* json.Marshal of an `any`: map keys come out sorted.
RECURSIVE MarshalAny(_)
MarshalAny(g) ==
    CASE g.k = "nil" -> JNull
      [] g.k = "string" -> JStr(g.v)
      [] g.k = "bool" -> JBool(g.v)
      [] g.k = "float64" -> JNum(g.v[1], g.v[2])
      [] g.k = "int" -> JInt(g.v)
      [] g.k = "slice" -> JArr([i \in 1..Len(g.v) |-> MarshalAny(g.v[i])])
      [] g.k = "map" ->
            JObj([i \in 1..Len(g.v) |-> <<g.v[i][1], MarshalAny(g.v[i][2])>>])

---------------------------------------------------------------------------
(* responseEnvelope and its codec.                                         *)

\* json.RawMessage: the bytes of one value, or no bytes.
NoRaw == <<>>

ZeroEnvelope == [Code |-> <<0, 0>>, Reason |-> "", Message |-> "", Data |-> NoRaw]

\* The value a struct field of the given JSON kind takes from the members:
\* absent and null leave the zero value, another kind is a type error.
FieldFits(members, key, kind) ==
    MapHas(members, key) =>
        LastValue(members, key).k \in {kind, "null"}

FieldValue(members, key, kind, zero) ==
    IF MapHas(members, key) /\ LastValue(members, key).k = kind
    THEN LastValue(members, key).v
    ELSE zero

\* json.Unmarshal(body, &envelope): [err, envelope].
UnmarshalEnvelope(body) ==
    LET failed == [err |-> TRUE, envelope |-> ZeroEnvelope]
    IN  IF Len(body) # 1 THEN failed
        ELSE LET j == body[1] IN
             CASE j.k = "null" -> [err |-> FALSE, envelope |-> ZeroEnvelope]
               [] j.k = "obj" ->
                     IF /\ FieldFits(j.v, "code", "num")
                        /\ FieldFits(j.v, "reason", "str")
                        /\ FieldFits(j.v, "msg", "str")
                     THEN [err |-> FALSE,
                           envelope |->
                             [Code |-> FieldValue(j.v, "code", "num", <<0, 0>>),
                              Reason |-> FieldValue(j.v, "reason", "str", ""),
                              Message |-> FieldValue(j.v, "msg", "str", ""),
                              Data |-> IF MapHas(j.v, "data")
                                       THEN <<LastValue(j.v, "data")>>
                                       ELSE NoRaw]]
                     ELSE failed
               [] OTHER -> failed

\* json.Marshal(envelope): the four fields in declaration order.
MarshalEnvelope(envelope) ==
    << JObj(<< <<"code", JNum(envelope.Code[1], envelope.Code[2])>>,
               <<"reason", JStr(envelope.Reason)>>,
               <<"msg", JStr(envelope.Message)>>,
               <<"data", IF envelope.Data = NoRaw THEN JNull ELSE envelope.Data[1]>> >>) >>

\* json.Unmarshal(envelope.Data, &payload) with payload a map[string]any:
\* [err, payload], payload the map's entries.
UnmarshalPayload(data) ==
    IF Len(data) # 1 THEN [err |-> TRUE, payload |-> <<>>]
    ELSE CASE data[1].k = "obj" -> [err |-> FALSE, payload |-> DecodeAny(data[1]).v]
           [] data[1].k = "null" -> [err |-> FALSE, payload |-> <<>>]
           [] OTHER -> [err |-> TRUE, payload |-> <<>>]

---------------------------------------------------------------------------
(* Ownership extractors.                                                   *)

\* m[key].(map[string]any) succeeds
IsMapAt(m, key) == MapHas(m, key) /\ MapGet(m, key).k = "map"

extractUserIDFromInfo(info) ==
    IF ~IsMapAt(info, "user_info") THEN ""
    ELSE LET userInfo == MapGet(info, "user_info").v
         IN  IF MapHas(userInfo, "id") /\ MapGet(userInfo, "id").k = "string"
             THEN MapGet(userInfo, "id").v
             ELSE ""

extractAnswerOwnerID(payload) ==
    IF IsMapAt(payload, "info")
    THEN extractUserIDFromInfo(MapGet(payload, "info").v)
    ELSE extractUserIDFromInfo(payload)

extractQuestionOwnerID(payload) ==
    IF IsMapAt(payload, "question")
    THEN extractUserIDFromInfo(MapGet(payload, "question").v)
    ELSE IF IsMapAt(payload, "question_info")
         THEN extractUserIDFromInfo(MapGet(payload, "question_info").v)
         ELSE ""

---------------------------------------------------------------------------
(* Filter policies.  A filter outcome is (body, status, changed).          *)

NoChange == [body |-> <<>>, status |-> 0, changed |-> FALSE]

forbidden ==
    [Code |-> <<0, StatusForbidden>>,
     Reason |-> "answer_private_forbidden",
     Message |-> "answer is private",
     Data |-> <<JNull>>]

\* Mutant: a payload with either owner missing is let through.
filterAnswerInfo_EitherEmptyPasses(envelope, userID) ==
    LET p == UnmarshalPayload(envelope.Data)
        answerOwnerID == extractAnswerOwnerID(p.payload)
        questionOwnerID == extractQuestionOwnerID(p.payload)
    IN  IF p.err THEN NoChange
        ELSE IF answerOwnerID = "" \/ questionOwnerID = "" THEN NoChange
        ELSE IF answerOwnerID = userID \/ questionOwnerID = userID THEN NoChange
        ELSE [body |-> MarshalEnvelope(forbidden),
              status |-> StatusForbidden,
              changed |-> TRUE]

\* Mutant: a payload that does not decode is blocked.
filterAnswerInfo_FailClosed(envelope, userID) ==
    LET p == UnmarshalPayload(envelope.Data)
        answerOwnerID == extractAnswerOwnerID(p.payload)
        questionOwnerID == extractQuestionOwnerID(p.payload)
    IN  IF ~p.err /\ answerOwnerID = "" /\ questionOwnerID = "" THEN NoChange
        ELSE IF ~p.err /\ (answerOwnerID = userID \/ questionOwnerID = userID)
        THEN NoChange
        ELSE [body |-> MarshalEnvelope(forbidden),
              status |-> StatusForbidden,
              changed |-> TRUE]

\* Mutant: only the answer's author passes.
filterAnswerInfo_AuthorOnly(envelope, userID) ==
    LET p == UnmarshalPayload(envelope.Data)
        answerOwnerID == extractAnswerOwnerID(p.payload)
        questionOwnerID == extractQuestionOwnerID(p.payload)
    IN  IF p.err THEN NoChange
        ELSE IF answerOwnerID = "" /\ questionOwnerID = "" THEN NoChange
        ELSE IF answerOwnerID = userID THEN NoChange
        ELSE [body |-> MarshalEnvelope(forbidden),
              status |-> StatusForbidden,
              changed |-> TRUE]

filterAnswerInfo(envelope, userID) ==
    LET p == UnmarshalPayload(envelope.Data)
        answerOwnerID == extractAnswerOwnerID(p.payload)
        questionOwnerID == extractQuestionOwnerID(p.payload)
    IN  IF p.err THEN NoChange
        ELSE IF answerOwnerID = "" /\ questionOwnerID = "" THEN NoChange
        ELSE IF answerOwnerID = userID \/ questionOwnerID = userID THEN NoChange
        ELSE [body |-> MarshalEnvelope(forbidden),
              status |-> StatusForbidden,
              changed |-> TRUE]

\* Mutant: an object entry without ownership markers is kept.
keepsItem_KeepsUnmarked(item, userID) ==
    /\ item.k = "map"
    /\ LET answerOwnerID == extractAnswerOwnerID(item.v)
           questionOwnerID == extractQuestionOwnerID(item.v)
       IN  \/ (answerOwnerID = "" /\ questionOwnerID = "")
           \/ (answerOwnerID = userID \/ questionOwnerID = userID)

\* The loop body's test: the item is appended to filtered.
keepsItem(item, userID) ==
    /\ item.k = "map"
    /\ LET answerOwnerID == extractAnswerOwnerID(item.v)
           questionOwnerID == extractQuestionOwnerID(item.v)
       IN  /\ ~(answerOwnerID = "" /\ questionOwnerID = "")
           /\ (answerOwnerID = userID \/ questionOwnerID = userID)

filterAnswerList(envelope, userID) ==
    LET p == UnmarshalPayload(envelope.Data)
    IN  IF p.err THEN NoChange
        ELSE IF ~(MapHas(p.payload, "list") /\ MapGet(p.payload, "list").k = "slice")
        THEN NoChange
        ELSE LET list == MapGet(p.payload, "list").v
                 filtered == SelectSeq(list, LAMBDA item : keepsItem(item, userID))
                 withList == MapSet(p.payload, "list", GoSlice(filtered))
                 withCount == MapSet(withList, "count", GoInt(Len(filtered)))
                 payloadBytes == <<MarshalAny(GoMap(withCount))>>
             IN  [body |-> MarshalEnvelope([envelope EXCEPT !.Data = payloadBytes]),
                  status |-> 0,
                  changed |-> TRUE]

filterAnswerResponse(path, userID, body) ==
    IF Len(body) = 0 THEN NoChange
    ELSE LET u == UnmarshalEnvelope(body)
         IN  IF u.err THEN NoChange
             ELSE IF u.envelope.Data = NoRaw \/ u.envelope.Data = <<JNull>>
             THEN NoChange
             ELSE CASE path = pathAnswerInfo -> filterAnswerInfo(u.envelope, userID)
                    [] path = pathAnswerList -> filterAnswerList(u.envelope, userID)
                    [] OTHER -> NoChange

---------------------------------------------------------------------------
(* The request context's "ctxUuidKey" value and the caller identity.       *)

CtxValue(kind, id) == [kind |-> kind, UserID |-> id]

\* The value is absent or is what the authentication layer stores, a (pointer
\* to a) struct; values of other kinds are not modelled.
\* absent: the key is not set; nil: a nil interface; nilptr: a nil pointer;
\* nofield: a struct with no field UserID; intfield: a struct whose UserID
\* is not a string; ptr, struct: a (pointer to a) struct with UserID a string.
userIDFromContext(c) ==
    CASE c.kind \in {"absent", "nil"} -> ""
      [] c.kind = "nilptr" -> ""
      [] c.kind \in {"nofield", "intfield"} -> ""
      [] c.kind \in {"ptr", "struct"} -> c.UserID

---------------------------------------------------------------------------
(* The response writers.  The real sink is the log of the calls made on    *)
(* it; the recorder holds a status and a buffer.                           *)

WriteHeaderOp(code) == [op |-> "WriteHeader", arg |-> <<code>>]
WriteHeaderNowOp == [op |-> "WriteHeaderNow", arg |-> <<>>]
WriteOp(data) == [op |-> "Write", arg |-> data]

NoRecorder == [live |-> FALSE, status |-> 0, body |-> <<>>]
newResponseRecorder == [live |-> TRUE, status |-> 0, body |-> <<>>]

\* Each recorder method gives the recorder and the wrapped real sink after
\* the call.
WriteHeader(r, s, statusCode) ==
    [recorder |-> [r EXCEPT !.status = statusCode], sink |-> s]

WriteHeaderNow(r, s) ==
    [recorder |-> IF r.status = 0 THEN [r EXCEPT !.status = StatusOK] ELSE r,
     sink |-> s]

\* Mutant: the recorder also passes the bytes on to the writer it wraps.
Write_Forwards(r, s, data) ==
    [recorder |-> [r EXCEPT !.body = @ \o data], sink |-> Append(s, WriteOp(data))]

Write(r, s, data) ==
    [recorder |-> [r EXCEPT !.body = @ \o data], sink |-> s]

\* Mutant: no default for a status never set.
statusCode_Raw(r) == r.status

statusCode(r) == IF r.status # 0 THEN r.status ELSE StatusOK

\* Mutant: an empty body is not written.
writeResponse_SkipsEmptyBody(s, status, body) ==
    IF body = <<>> THEN s \o <<WriteHeaderOp(status)>>
    ELSE s \o <<WriteHeaderOp(status), WriteOp(body)>>

\* writeResponse on the real writer s.
writeResponse(s, status, body) ==
    s \o <<WriteHeaderOp(status), WriteOp(body)>>

\* The handler calls op on ctx.Writer w.  The calls are the three methods
\* responseRecorder defines; the other methods of the embedded
\* gin.ResponseWriter are gin's and are not modelled.
Call(w, r, s, op) ==
    IF w = "recorder"
    THEN CASE op.op = "WriteHeader" -> WriteHeader(r, s, op.arg[1])
           [] op.op = "WriteHeaderNow" -> WriteHeaderNow(r, s)
           [] op.op = "Write" -> Write(r, s, op.arg)
    ELSE [recorder |-> r, sink |-> Append(s, op)]

---------------------------------------------------------------------------
(* Inputs.                                                                 *)

Users == {"u1", "u2"}
Paths == {pathAnswerInfo, pathAnswerList, "/answer/api/v1/answer/info/"}
\* Statuses a handler sets.
HandlerStatuses == {200, 404}

CtxValues ==
    {CtxValue(kd, "") : kd \in {"absent", "nil", "nilptr", "nofield", "intfield", "ptr"}}
        \cup {CtxValue("ptr", u) : u \in Users}
        \cup {CtxValue("struct", "u2")}

Owner(id) == <<"user_info", JObj(<< <<"id", id>> >>)>>

\* Entries of a page list, and payloads of the info endpoint.
EntryInfo(u) == JObj(<< <<"info", JObj(<<Owner(JStr(u))>>)>> >>)
EntryFlat == JObj(<< <<"id", JStr("a2")>>, Owner(JStr("u2")) >>)
EntryBoth ==
    JObj(<< <<"question_info", JObj(<<Owner(JStr("u1"))>>)>>,
            <<"info", JObj(<<Owner(JStr("u2"))>>)>> >>)
EntryQuestionOnly == JObj(<< <<"question_info", JObj(<<Owner(JStr("u1"))>>)>> >>)
EntryQuestionFirst ==
    JObj(<< <<"question", JObj(<<Owner(JStr("u2"))>>)>>,
            <<"question_info", JObj(<<Owner(JStr("u1"))>>)>> >>)
EntryShadow == JObj(<< <<"info", JObj(<<>>)>>, Owner(JStr("u1")) >>)
EntryNoOwner == JObj(<< <<"id", JStr("a1")>> >>)
EntryNumberID == JObj(<< Owner(JInt(7)) >>)
EntryBigVotes ==
    JObj(<< <<"info", JObj(<<Owner(JStr("u1"))>>)>>, <<"votes", JNum(Pow23, 1)>> >>)
EntryString == JStr("a1")

ObjectEntries ==
    {EntryInfo(u) : u \in Users}
        \cup {EntryFlat, EntryBoth, EntryQuestionOnly, EntryQuestionFirst,
              EntryShadow, EntryNoOwner, EntryNumberID, EntryBigVotes}
Entries == ObjectEntries \cup {EntryString}

Lists == UNION {[1..n -> Entries] : n \in 0..MaxList}

Envelope(data) ==
    JObj(<< <<"code", JInt(200)>>, <<"reason", JStr("base.success")>>,
            <<"msg", JStr("Success.")>>, <<"data", data>> >>)

PageData(list) == JObj(<< <<"list", JArr(list)>>, <<"count", JInt(Len(list))>> >>)
PageDataNoCount(list) == JObj(<< <<"page", JInt(1)>>, <<"list", JArr(list)>> >>)

InfoDocs == {Envelope(e) : e \in ObjectEntries}
PageDocs == {Envelope(PageData(l)) : l \in Lists}
               \cup {Envelope(PageDataNoCount(l)) : l \in Lists}

\* Bodies with nothing to filter, or not of the expected form.
OddDocs ==
    { JBad, JNull, JArr(<<EntryInfo("u1")>>), JStr("ok"),
      JObj(<< <<"code", JInt(200)>> >>),
      JObj(<< <<"code", JStr("200")>>, <<"data", EntryInfo("u1")>> >>),
      JObj(<< <<"data", EntryInfo("u1")>>, <<"page", JInt(1)>> >>),
      Envelope(JNull), Envelope(JStr("x")), Envelope(JInt(3)),
      Envelope(JArr(<<EntryInfo("u1")>>)), Envelope(JObj(<<>>)),
      Envelope(JObj(<< <<"list", JStr("none")>>, Owner(JStr("u1")) >>)),
      Envelope(JObj(<< <<"list", JNull>> >>)),
      Envelope(JObj(<< <<"list", EntryInfo("u1")>> >>)) }

Docs == InfoDocs \cup PageDocs \cup OddDocs
Bodies == {<<>>} \cup {<<d>> : d \in Docs}

\* What a handler writes one call at a time.
Chunks ==
    { <<>>, <<JBad>>, <<Envelope(EntryInfo("u1"))>>,
      <<Envelope(PageData(<<EntryInfo("u1"), EntryInfo("u2")>>))>> }

\* Plugin configuration blobs.
ConfigBlobs ==
    { JBad, JNull, JObj(<<>>),
      JObj(<< <<"enabled", JBool(TRUE)>> >>),
      JObj(<< <<"enabled", JBool(FALSE)>> >>),
      JObj(<< <<"enabled", JStr("no")>> >>) }

---------------------------------------------------------------------------
(* State.                                                                  *)

VARIABLES
    Config,      \* a.Config
    pc,          \* "idle", "handler" (inside ctx.Next()), "done"
    path,        \* ctx.Request.URL.Path
    ctxValue,    \* the context's "ctxUuidKey" value
    enabled,     \* a.Config.Enabled as the middleware read it
    userID,      \* the middleware's userID
    writer,      \* ctx.Writer: "real" or "recorder"
    recorder,    \* the responseRecorder
    sink,        \* the calls the real response writer has received
    hops         \* the calls the handler has made on ctx.Writer

vars == <<Config, pc, path, ctxValue, enabled, userID, writer, recorder, sink, hops>>

Init ==
    /\ Config = [Enabled |-> TRUE]
    /\ pc = "idle"
    /\ path = ""
    /\ ctxValue = CtxValue("absent", "")
    /\ enabled = TRUE
    /\ userID = ""
    /\ writer = "real"
    /\ recorder = NoRecorder
    /\ sink = <<>>
    /\ hops = <<>>

\* ConfigReceiver: the blob is unmarshalled over Config{Enabled: true}.
\* a.Config is set at registration and here, never to nil.
ConfigReceiver(config) ==
    /\ Config' = [Enabled |->
                    IF /\ config.k = "obj"
                       /\ MapHas(config.v, "enabled")
                       /\ LastValue(config.v, "enabled").k = "bool"
                    THEN LastValue(config.v, "enabled").v
                    ELSE TRUE]
    /\ UNCHANGED <<pc, path, ctxValue, enabled, userID, writer, recorder, sink, hops>>

\* Mutant: the toggle is not consulted.
Entered_IgnoresToggle(cfg, p, c) ==
    LET id == userIDFromContext(c)
        engaged == p \in {pathAnswerInfo, pathAnswerList} /\ id # ""
    IN  [userID |-> IF p \in {pathAnswerInfo, pathAnswerList} THEN id ELSE "",
         writer |-> IF engaged THEN "recorder" ELSE "real",
         recorder |-> IF engaged THEN newResponseRecorder ELSE NoRecorder]

\* answerVisibilityMiddleware up to ctx.Next(): what the middleware holds
\* when the handler starts.
Entered(cfg, p, c) ==
    LET id == userIDFromContext(c)
        engaged == cfg.Enabled /\ p \in {pathAnswerInfo, pathAnswerList} /\ id # ""
    IN  [userID |-> IF cfg.Enabled /\ p \in {pathAnswerInfo, pathAnswerList}
                    THEN id ELSE "",
         writer |-> IF engaged THEN "recorder" ELSE "real",
         recorder |-> IF engaged THEN newResponseRecorder ELSE NoRecorder]

MiddlewareEnter(p, c) ==
    /\ pc \in {"idle", "done"}
    /\ LET e == Entered(Config, p, c)
       IN  /\ userID' = e.userID
           /\ writer' = e.writer
           /\ recorder' = e.recorder
    /\ pc' = "handler"
    /\ path' = p
    /\ ctxValue' = c
    /\ enabled' = Config.Enabled
    /\ sink' = <<>>
    /\ hops' = <<>>
    /\ UNCHANGED Config

\* The handler makes one call on ctx.Writer.
HandlerCall(op) ==
    /\ pc = "handler"
    /\ Len(hops) < MaxOps
    /\ LET res == Call(writer, recorder, sink, op)
       IN  /\ recorder' = res.recorder
           /\ sink' = res.sink
    /\ hops' = Append(hops, op)
    /\ UNCHANGED <<Config, pc, path, ctxValue, enabled, userID, writer>>

HandlerWriteHeader(code) == HandlerCall(WriteHeaderOp(code))
HandlerWriteHeaderNow == HandlerCall(WriteHeaderNowOp)
HandlerWrite(data) == HandlerCall(WriteOp(data))

\* The handler renders one response, as ctx.JSON(code, obj) does: the status,
\* then the body in one write.
HandlerRespond(code, body) ==
    /\ pc = "handler"
    /\ hops = <<>>
    /\ LET r1 == Call(writer, recorder, sink, WriteHeaderOp(code))
           r2 == Call(writer, r1.recorder, r1.sink, WriteOp(body))
       IN  /\ recorder' = r2.recorder
           /\ sink' = r2.sink
    /\ hops' = <<WriteHeaderOp(code), WriteOp(body)>>
    /\ UNCHANGED <<Config, pc, path, ctxValue, enabled, userID, writer>>

\* ctx.Next() returns on a bypassed request: the middleware returns.
BypassReturn ==
    /\ pc = "handler"
    /\ writer = "real"
    /\ pc' = "done"
    /\ UNCHANGED <<Config, path, ctxValue, enabled, userID, writer, recorder, sink, hops>>

\* What the middleware writes once the handler has returned.
Forwarded(r, p, id) ==
    LET status == statusCode(r)
        body == r.body
        f == filterAnswerResponse(p, id, body)
    IN  IF ~f.changed THEN [status |-> status, body |-> body]
        ELSE [status |-> IF f.status # 0 THEN f.status ELSE status,
              body |-> f.body]

\* ctx.Next() returns on an intercepted request: filter and forward.
Forward ==
    /\ pc = "handler"
    /\ writer = "recorder"
    /\ LET out == Forwarded(recorder, path, userID)
       IN  sink' = writeResponse(sink, out.status, out.body)
    /\ writer' = "real"
    /\ pc' = "done"
    /\ UNCHANGED <<Config, path, ctxValue, enabled, userID, recorder, hops>>

Next ==
    \/ \E config \in ConfigBlobs : ConfigReceiver(config)
    \/ \E p \in Paths, c \in CtxValues : MiddlewareEnter(p, c)
    \/ \E code \in HandlerStatuses : HandlerWriteHeader(code)
    \/ HandlerWriteHeaderNow
    \/ \E data \in Chunks : HandlerWrite(data)
    \/ BypassReturn
    \/ Forward

Spec == Init /\ [][Next]_vars

\* The filter policies on their own: an intercepted request has entered, the
\* handler renders one response, the middleware filters and forwards it.
FilterInit ==
    /\ Config = [Enabled |-> TRUE]
    /\ pc = "handler"
    /\ path \in {pathAnswerInfo, pathAnswerList}
    /\ ctxValue \in {CtxValue("ptr", u) : u \in Users}
    /\ enabled = TRUE
    /\ LET e == Entered(Config, path, ctxValue)
       IN  /\ userID = e.userID
           /\ writer = e.writer
           /\ recorder = e.recorder
    /\ sink = <<>>
    /\ hops = <<>>

FilterNext ==
    \/ \E code \in HandlerStatuses, body \in Bodies : HandlerRespond(code, body)
    \/ Forward

FilterSpec == FilterInit /\ [][FilterNext]_vars

---------------------------------------------------------------------------
(* Observations the properties are stated with.  None of them is code.     *)

\* The status the handler set last (200 when it set none) and the bytes it
\* wrote, read off the calls it made.
RECURSIVE HStatus(_)
HStatus(ops) ==
    IF ops = <<>> THEN StatusOK
    ELSE IF ops[Len(ops)].op = "WriteHeader" THEN ops[Len(ops)].arg[1]
    ELSE HStatus(SubSeq(ops, 1, Len(ops) - 1))

RECURSIVE HBody(_)
HBody(ops) ==
    IF ops = <<>> THEN <<>>
    ELSE HBody(SubSeq(ops, 1, Len(ops) - 1))
            \o (IF ops[Len(ops)].op = "Write" THEN ops[Len(ops)].arg ELSE <<>>)

HandlerStatus == HStatus(hops)
HandlerBody == HBody(hops)

CountOps(ops, name) == Cardinality({i \in 1..Len(ops) : ops[i].op = name})

Intercepted == recorder.live
SinkIs(status, body) == sink = <<WriteHeaderOp(status), WriteOp(body)>>
PassedThrough == SinkIs(HandlerStatus, HandlerBody)

\* The JSON value a document denotes: members unordered (kept sorted, the
\* last of a repeated key), numbers exact.
RECURSIVE JSONValue(_)
JSONValue(j) ==
    CASE j.k = "arr" -> [k |-> "arr", v |-> [i \in 1..Len(j.v) |-> JSONValue(j.v[i])]]
      [] j.k = "obj" ->
            LET ks == SortedKeys(MemberKeys(j.v))
            IN  [k |-> "obj",
                 v |-> [i \in 1..Len(ks) |-> <<ks[i], JSONValue(LastValue(j.v, ks[i]))>>]]
      [] OTHER -> j

\* The handler's body is an envelope that decodes, with data an object.
HasPayload ==
    /\ Len(HandlerBody) = 1
    /\ ~UnmarshalEnvelope(HandlerBody).err
    /\ UnmarshalEnvelope(HandlerBody).envelope.Data # NoRaw
    /\ UnmarshalEnvelope(HandlerBody).envelope.Data[1].k = "obj"

\* data of the handler's body as it stands in the bytes, and decoded.
DataDoc == UnmarshalEnvelope(HandlerBody).envelope.Data[1]
Payload == DecodeAny(DataDoc).v
AnswerOwner == extractAnswerOwnerID(Payload)
QuestionOwner == extractQuestionOwnerID(Payload)

\* data holds an array-typed list.
HasList ==
    /\ HasPayload
    /\ MapHas(DataDoc.v, "list")
    /\ LastValue(DataDoc.v, "list").k = "arr"
InList == LastValue(DataDoc.v, "list").v

\* One of the entry's extracted owners is the caller.
OwnedEntry(e, caller) ==
    /\ e.k = "obj"
    /\ caller \in {extractAnswerOwnerID(DecodeAny(e).v),
                   extractQuestionOwnerID(DecodeAny(e).v)}
\* The entry carries owners and none is the caller.
ForeignEntry(e, caller) ==
    /\ e.k = "obj"
    /\ {extractAnswerOwnerID(DecodeAny(e).v),
        extractQuestionOwnerID(DecodeAny(e).v)} \ {"", caller} # {}
    /\ ~OwnedEntry(e, caller)

\* The body written to the sink, when it is one object with an object data.
OutBody == sink[2].arg
OutIsPage ==
    /\ Len(sink) = 2
    /\ sink[1].op = "WriteHeader"
    /\ sink[2].op = "Write"
    /\ Len(OutBody) = 1
    /\ OutBody[1].k = "obj"
    /\ MapHas(OutBody[1].v, "data")
    /\ LastValue(OutBody[1].v, "data").k = "obj"
    /\ MapHas(LastValue(OutBody[1].v, "data").v, "list")
    /\ LastValue(LastValue(OutBody[1].v, "data").v, "list").k = "arr"
    /\ MapHas(LastValue(OutBody[1].v, "data").v, "count")
OutData == LastValue(OutBody[1].v, "data")
OutList == LastValue(OutData.v, "list").v
OutCount == LastValue(OutData.v, "count")

ForbiddenDoc ==
    JObj(<< <<"code", JInt(403)>>, <<"reason", JStr("answer_private_forbidden")>>,
            <<"msg", JStr("answer is private")>>, <<"data", JNull>> >>)
Blocked == SinkIs(403, <<ForbiddenDoc>>)

---------------------------------------------------------------------------
(* Properties.                                                             *)

\* C1 as stated: on every path, bypass included, a finished request has put
\* exactly one status and exactly one body on the real sink.
C1_ExactlyOneWriteOnEveryPath ==
    pc = "done" =>
        /\ CountOps(sink, "Write") = 1
        /\ CountOps(sink, "WriteHeader") = 1

\* C1 amended: an intercepted request ends with exactly one status followed
\* by exactly one body on the real sink, whatever the handler called; on a
\* bypassed request the middleware writes nothing and the sink holds exactly
\* the handler's own calls, be they none, one or several.
C1_ExactlyOneWriteWhenIntercepted ==
    pc = "done" =>
        IF Intercepted
        THEN /\ Len(sink) = 2
             /\ sink[1].op = "WriteHeader"
             /\ sink[2].op = "Write"
        ELSE sink = hops

\* An intercepted request whose handler wrote two chunks has finished with
\* one write on the sink.
C1_Witness ==
    /\ pc = "done"
    /\ Intercepted
    /\ Len(hops) = 2
    /\ CountOps(hops, "Write") = 2
    /\ hops[1].arg # <<>> /\ hops[2].arg # <<>>
    /\ CountOps(sink, "Write") = 1

\* C2: while the recorder is installed, a call the handler makes leaves the
\* real sink as it was: WriteHeader only sets the recorded status, Write only
\* appends to the buffer, WriteHeaderNow only defaults the recorded status to
\* 200; and the one step that changes the sink is the middleware's write
\* that ends the request.
C2_RecorderNeverForwards ==
    [][ writer = "recorder" =>
          /\ (hops' # hops =>
                LET op == hops'[Len(hops')]
                IN  /\ sink' = sink
                    /\ op.op = "WriteHeader" =>
                          recorder' = [recorder EXCEPT !.status = op.arg[1]]
                    /\ op.op = "Write" =>
                          recorder' = [recorder EXCEPT !.body = recorder.body \o op.arg]
                    /\ op.op = "WriteHeaderNow" =>
                          recorder' = [recorder EXCEPT
                                          !.status = IF recorder.status = 0 THEN 200
                                                     ELSE recorder.status])
          /\ (sink' # sink =>
                /\ pc = "handler" /\ pc' = "done"
                /\ writer' = "real"
                /\ hops' = hops
                /\ Len(sink') = 2) ]_vars

\* The handler has set a status and written a body into the recorder, and
\* the sink has received nothing.
C2_Witness ==
    /\ pc = "handler"
    /\ writer = "recorder"
    /\ Len(hops) = 2
    /\ hops[1].op = "WriteHeader"
    /\ hops[2].op = "Write" /\ hops[2].arg # <<>>
    /\ sink = <<>>

\* C3: on the info endpoint, when the payload's owners are not both empty and
\* neither is the caller, the client gets status 403 and the forbidden
\* envelope, whatever status and body the handler produced.
C3_ForeignAnswerIsBlocked ==
    (/\ pc = "done"
     /\ path = pathAnswerInfo
     /\ HasPayload
     /\ ~(AnswerOwner = "" /\ QuestionOwner = "")
     /\ AnswerOwner # userID
     /\ QuestionOwner # userID)
        => Blocked

\* Only the question owner is known, it is not the caller, and the handler
\* answered 404: the request has been blocked.
C3_Witness ==
    /\ pc = "done"
    /\ path = pathAnswerInfo
    /\ HasPayload
    /\ AnswerOwner = ""
    /\ QuestionOwner \notin {"", userID}
    /\ HandlerStatus = 404
    /\ Blocked

\* C4 as stated: on the page endpoint, when data holds an array-typed list,
\* the list written is the sub-sequence of the handler's list made of the
\* object entries one of whose owners is the caller, entry for entry the same
\* JSON value, and count is its length.
C4_ListIsTheOwnedSubsequence ==
    (pc = "done" /\ path = pathAnswerList /\ HasList) =>
        LET owned == SelectSeq(InList, LAMBDA e : OwnedEntry(e, userID))
        IN  /\ OutIsPage
            /\ [i \in 1..Len(OutList) |-> JSONValue(OutList[i])]
                  = [i \in 1..Len(owned) |-> JSONValue(owned[i])]
            /\ OutCount = JInt(Len(owned))

\* C5: on both endpoints, a body that is empty or no decodable envelope, or
\* whose data is missing, null or not an object, reaches the client with the
\* handler's status and the handler's bytes.
C5_NothingToFilterPassesThrough ==
    (pc = "done" /\ Intercepted /\ ~HasPayload) => PassedThrough

\* The handler answered 404 on the page endpoint with data an array.
C5_Witness ==
    /\ pc = "done"
    /\ path = pathAnswerList
    /\ HandlerStatus = 404
    /\ Len(HandlerBody) = 1
    /\ ~UnmarshalEnvelope(HandlerBody).err
    /\ UnmarshalEnvelope(HandlerBody).envelope.Data # NoRaw
    /\ UnmarshalEnvelope(HandlerBody).envelope.Data[1].k = "arr"
    /\ PassedThrough

NoIdentity(c) == c.kind \notin {"ptr", "struct"} \/ c.UserID = ""

\* C7: a request entered with the toggle off, or on another path, or without
\* a caller identity, is bypassed: no recorder exists, the handler's calls go
\* to the real sink as they are, and nothing else does.
C7_BypassLeavesResponseAlone ==
    (/\ pc \in {"handler", "done"}
     /\ \/ ~enabled
        \/ path \notin {pathAnswerInfo, pathAnswerList}
        \/ NoIdentity(ctxValue))
        => /\ ~Intercepted
           /\ writer = "real"
           /\ sink = hops

\* Toggle off, info endpoint, caller u2, the handler returned u1's answer:
\* the answer went out as the handler wrote it.
C7_Witness ==
    /\ pc = "done"
    /\ ~enabled
    /\ path = pathAnswerInfo
    /\ ctxValue = CtxValue("ptr", "u2")
    /\ hops = <<WriteHeaderOp(200), WriteOp(<<Envelope(EntryInfo("u1"))>>)>>
    /\ sink = hops

\* The response the client gets is the handler's: same status, and the same
\* bytes or one document denoting the same JSON value.
SameResponse ==
    /\ Len(sink) = 2
    /\ sink[1] = WriteHeaderOp(HandlerStatus)
    /\ sink[2].op = "Write"
    /\ \/ OutBody = HandlerBody
       \/ /\ Len(OutBody) = 1 /\ Len(HandlerBody) = 1
          /\ JSONValue(OutBody[1]) = JSONValue(HandlerBody[1])

\* The payload shows an owner that is not the caller: the info payload's
\* owners, or those of some entry of the page list.
OwnershipMismatch ==
    /\ HasPayload
    /\ IF path = pathAnswerInfo
       THEN {AnswerOwner, QuestionOwner} \ {""} # {} /\ userID \notin {AnswerOwner, QuestionOwner}
       ELSE HasList /\ \E i \in 1..Len(InList) : ForeignEntry(InList[i], userID)

\* C8 as stated: on both endpoints the response the client gets differs from
\* the handler's only on a confirmed ownership mismatch; format errors and
\* payloads without ownership markers pass through.
C8_OnlyMismatchRewrites ==
    pc = "done" => (SameResponse \/ OwnershipMismatch)

\* C8 amended: on the info endpoint the response is the handler's own unless
\* the payload shows owners none of which is the caller, and then it is the
\* 403 envelope.  On the page endpoint the response is the handler's own
\* when the body is no decodable envelope or data is not an object holding an
\* array-typed list; otherwise it is always re-encoded under the handler's
\* status, and its list holds only object entries one of whose owners is the
\* caller, as many as the handler's list held: entries that are not objects
\* or carry no ownership marker are dropped like those of another owner.
C8_FailOpenExceptListEntries ==
    pc = "done" =>
        /\ path = pathAnswerInfo =>
              \/ PassedThrough
              \/ OwnershipMismatch /\ Blocked
        /\ path = pathAnswerList =>
              IF HasList
              THEN /\ OutIsPage
                   /\ sink[1] = WriteHeaderOp(HandlerStatus)
                   /\ \A i \in 1..Len(OutList) : OwnedEntry(OutList[i], userID)
                   /\ Len(OutList)
                        = Len(SelectSeq(InList, LAMBDA e : OwnedEntry(e, userID)))
              ELSE PassedThrough

\* A page whose entries are one of the caller's and one without any
\* ownership marker, none of another owner: the unmarked entry is gone.
C8_Witness ==
    /\ pc = "done"
    /\ path = pathAnswerList
    /\ HasList
    /\ InList = <<EntryNoOwner, EntryInfo(userID)>>
    /\ ~OwnershipMismatch
    /\ OutIsPage
    /\ Len(OutList) = 1

\* C9 as stated: on the info endpoint an answer whose author is known reaches
\* the client only when the caller is that author; otherwise the client gets
\* 403 and null data.
C9_OnlyTheAuthorSeesTheAnswer ==
    (pc = "done" /\ path = pathAnswerInfo /\ HasPayload /\ AnswerOwner # "") =>
        IF AnswerOwner = userID THEN PassedThrough ELSE Blocked

\* C10: the middleware writes, when the filter reports no change, the
\* handler's recorded status (200 when it set none) and the buffered body;
\* when it reports a change, the filter's body under the filter's status when
\* it gives one (403 for a blocked answer) and under the handler's status
\* when it gives none (a narrowed list).
C10_ForwardedStatusAndBody ==
    (pc = "done" /\ Intercepted) =>
        LET f == filterAnswerResponse(path, userID, HandlerBody)
        IN  /\ ~f.changed => SinkIs(HandlerStatus, HandlerBody)
            /\ f.changed /\ f.status # 0 => SinkIs(f.status, f.body)
            /\ f.changed /\ f.status = 0 => SinkIs(HandlerStatus, f.body)
            /\ f.changed /\ path = pathAnswerInfo => sink[1] = WriteHeaderOp(403)
            /\ f.changed /\ path = pathAnswerList => sink[1] = WriteHeaderOp(HandlerStatus)

\* A list was narrowed under the handler's 404.
C10_Witness ==
    /\ pc = "done"
    /\ Intercepted
    /\ path = pathAnswerList
    /\ Len(hops) = 2
    /\ hops[1] = WriteHeaderOp(404)
    /\ filterAnswerResponse(path, userID, HandlerBody).changed
    /\ sink[1] = WriteHeaderOp(404)

====
